---- MODULE Spec2Model ----
(***************************************************************************)
(* Model of containerd/handle.go: one taskHandle, driven by               *)
(*   - a lifecycle driver thread (shutdown, cleanup, stats, signal),       *)
(*   - the goroutine that executes run,                                    *)
(*   - status readers (TaskStatus, IsRunning),                             *)
(* against the external containerd task/container objects.                 *)
(* Every runtime call is one atomic step whose result is chosen by the     *)
(* runtime; the calls made by one invocation are recorded in its call log. *)
(***************************************************************************)
EXTENDS Naturals, Sequences, FiniteSets

\* ------------------------------------------------------------ bounds
\* Largest timeout (in seconds) the driver passes to shutdown.
MaxTimeout == 1
\* Number of threads polling TaskStatus / IsRunning.
NumReaders == 2

\* ------------------------------------------------------------ constants
\* run: time.Sleep(5 * time.Second)
StartupGrace == 5

Readers == 1..NumReaders

\* error values a runtime call may return; "nil" is success
Errs == {"e1", "e2"}
\* error of a call on a task or container that was already deleted
ErrNotFound == "notfound"
\* syscall.Signal values the driver uses
SyscallSignals == {"SIGTERM", "SIGINT", "SIGKILL"}
\* an os.Signal whose dynamic type is not syscall.Signal
ForeignSignal == "foreign"
OsSignals == SyscallSignals \cup {ForeignSignal}
\* containerd.ProcessStatus
Created == "created"
Running == "running"
Stopped == "stopped"
\* drivers.TaskState
TaskStates == {"unknown", "running", "exited"}
TaskStateRunning == "running"

VARIABLES
    \* taskHandle fields
    procState, startedAt, completedAt, exitResult, containerName,
    \* stateLock (sync.RWMutex): a writer holding or waiting for the lock,
    \* the readers holding it, the readers queued behind a writer
    writer, readers, blocked,
    \* the external runtime: status of the task, whether the task and
    \* the container have been deleted
    rtStatus, taskDeleted, containerDeleted,
    \* lifecycle driver: position, operation, arguments, time slept,
    \* runtime calls of the current invocation, returned value
    dpc, dop, timeout, signal, dslept, dcalls, dret,
    \* run goroutine: position, time slept, runtime calls of the invocation
    rpc, rslept, rcalls,
    \* readers: position
    qpc

hvars == <<procState, startedAt, completedAt, exitResult, containerName>>
lvars == <<writer, readers, blocked>>
rtvars == <<rtStatus, taskDeleted, containerDeleted>>
dvars == <<dpc, dop, timeout, signal, dslept, dcalls, dret>>
rvars == <<rpc, rslept, rcalls>>
qvars == <<qpc>>
vars == <<hvars, lvars, rtvars, dvars, rvars, qvars>>

\* one recorded runtime call: operation, signal argument, returned error,
\* returned status, seconds slept by the caller before it and, for a Kill
\* or a Status query, the task's real status when the call was made
Call(op, arg, err, val, at) ==
    [op |-> op, arg |-> arg, err |-> err, val |-> val, at |-> at,
     rt |-> IF op \in {"Kill", "Status"} THEN rtStatus ELSE "-"]

\* ------------------------------------------------------------ runtime
\* errors the runtime may return from a call on the task (Start, Kill,
\* Status, task Delete): anything while the task exists, not-found after
TaskCallErrs ==
    IF taskDeleted THEN {ErrNotFound} ELSE {"nil"} \cup Errs

\* errors the runtime may return from container.Delete
ContainerCallErrs ==
    IF containerDeleted THEN {ErrNotFound} ELSE {"nil"} \cup Errs

\* ------------------------------------------------------------ Init
\* The handle as the driver creates it: state set at creation, no exit
\* recorded; container and task provisioned, task not started; nobody
\* holds the lock and no call is in progress.
Init ==
    /\ procState \in {"unknown", TaskStateRunning}
    /\ startedAt = 1
    /\ completedAt = 0
    /\ exitResult = "nil"
    /\ containerName = "redis-1"
    /\ writer = FALSE
    /\ readers = {}
    /\ blocked = {}
    /\ rtStatus = Created
    /\ taskDeleted = FALSE
    /\ containerDeleted = FALSE
    /\ dpc = "idle"
    /\ dop = "none"
    /\ timeout = 0
    /\ signal = "-"
    /\ dslept = 0
    /\ dcalls = <<>>
    /\ dret = "none"
    /\ rpc = "idle"
    /\ rslept = 0
    /\ rcalls = <<>>
    /\ qpc = [q \in Readers |-> "idle"]

\* ------------------------------------------------------------ shutdown
\* the driver calls shutdown(ctx, t, s)
CallShutdown ==
    /\ dpc = "idle"
    /\ \E t \in 0..MaxTimeout, s \in SyscallSignals :
        /\ timeout' = t
        /\ signal' = s
    /\ dpc' = "sd_kill"
    /\ dop' = "shutdown"
    /\ dslept' = 0
    /\ dcalls' = <<>>
    /\ dret' = "none"
    /\ UNCHANGED <<hvars, lvars, rtvars, rvars, qvars>>

\* mutant: the error of the initial Kill is ignored
AfterKill_IgnoreError(err) ==
    [pc |-> "sd_sleep", ret |-> "none"]

\* if err := h.task.Kill(ctx, signal); err != nil { return err }
AfterKill(err) ==
    IF err # "nil" THEN [pc |-> "done", ret |-> err]
    ELSE [pc |-> "sd_sleep", ret |-> "none"]

\* mutant: no signal is sent to a task the runtime reports as stopped
ShutdownKill_SkipsExited ==
    /\ dpc = "sd_kill"
    /\ IF rtStatus = Stopped
       THEN /\ dcalls' = dcalls
            /\ dpc' = "done"
            /\ dret' = "nil"
       ELSE \E err \in TaskCallErrs :
            /\ dcalls' = Append(dcalls, Call("Kill", signal, err, "-", dslept))
            /\ dpc' = AfterKill(err).pc
            /\ dret' = AfterKill(err).ret
    /\ UNCHANGED <<dop, timeout, signal, dslept>>
    /\ UNCHANGED <<hvars, lvars, rtvars, rvars, qvars>>

ShutdownKill ==
    /\ dpc = "sd_kill"
    /\ \E err \in TaskCallErrs :
        /\ dcalls' = Append(dcalls, Call("Kill", signal, err, "-", dslept))
        /\ dpc' = AfterKill(err).pc
        /\ dret' = AfterKill(err).ret
    /\ UNCHANGED <<dop, timeout, signal, dslept>>
    /\ UNCHANGED <<hvars, lvars, rtvars, rvars, qvars>>

\* mutant: the sleep is cut one second short
SleepOver_Early(slept, d) == slept + 1 >= d

\* mutant: the sleep returns at once
SleepOver_Skipped(slept, d) == TRUE

\* time.Sleep(d) has returned once d seconds were slept
SleepOver(slept, d) == slept >= d

\* one second of time.Sleep(timeout)
ShutdownSleep ==
    /\ dpc = "sd_sleep"
    /\ ~SleepOver(dslept, timeout)
    /\ dslept' = dslept + 1
    /\ UNCHANGED <<dpc, dop, timeout, signal, dcalls, dret>>
    /\ UNCHANGED <<hvars, lvars, rtvars, rvars, qvars>>

\* mutant: the reported status is not compared with Running
AfterStatus_AlwaysEscalate(err, status) ==
    IF err # "nil" THEN [pc |-> "done", ret |-> err]
    ELSE [pc |-> "sd_sigkill", ret |-> "none"]

\* mutant: a failed Status query escalates instead of returning
AfterStatus_EscalateOnError(err, status) ==
    IF err = "nil" /\ status # Running THEN [pc |-> "done", ret |-> "nil"]
    ELSE [pc |-> "sd_sigkill", ret |-> "none"]

\* status, err := h.task.Status(ctx); the two early returns, else escalate
AfterStatus(err, status) ==
    IF err # "nil" THEN [pc |-> "done", ret |-> err]
    ELSE IF status # Running THEN [pc |-> "done", ret |-> "nil"]
    ELSE [pc |-> "sd_sigkill", ret |-> "none"]

ShutdownStatus ==
    /\ dpc = "sd_sleep"
    /\ SleepOver(dslept, timeout)
    /\ \E err \in TaskCallErrs :
        LET status == IF err = "nil" THEN rtStatus ELSE "-" IN
        /\ dcalls' = Append(dcalls, Call("Status", "-", err, status, dslept))
        /\ dpc' = AfterStatus(err, status).pc
        /\ dret' = AfterStatus(err, status).ret
    /\ UNCHANGED <<dop, timeout, signal, dslept>>
    /\ UNCHANGED <<hvars, lvars, rtvars, rvars, qvars>>

\* mutant: the escalation repeats the graceful signal
ForcefulSignal_Term == "SIGTERM"

\* the signal of the escalation: syscall.SIGKILL
ForcefulSignal == "SIGKILL"

\* return h.task.Kill(ctx, syscall.SIGKILL)
ShutdownSigkill ==
    /\ dpc = "sd_sigkill"
    /\ \E err \in TaskCallErrs :
        /\ dcalls' = Append(dcalls, Call("Kill", ForcefulSignal, err, "-", dslept))
        /\ dret' = err
    /\ dpc' = "done"
    /\ UNCHANGED <<dop, timeout, signal, dslept>>
    /\ UNCHANGED <<hvars, lvars, rtvars, rvars, qvars>>

\* ------------------------------------------------------------ cleanup
\* mutant: cleanup takes the exclusive lock and keeps it
CallCleanup_TakesLock ==
    /\ dpc = "idle"
    /\ ~writer
    /\ writer' = TRUE
    /\ dpc' = "cl_task"
    /\ dop' = "cleanup"
    /\ timeout' = 0
    /\ signal' = "-"
    /\ dslept' = 0
    /\ dcalls' = <<>>
    /\ dret' = "none"
    /\ UNCHANGED <<readers, blocked>>
    /\ UNCHANGED <<hvars, rtvars, rvars, qvars>>

\* the driver calls cleanup(ctx)
CallCleanup ==
    /\ dpc = "idle"
    /\ dpc' = "cl_task"
    /\ dop' = "cleanup"
    /\ timeout' = 0
    /\ signal' = "-"
    /\ dslept' = 0
    /\ dcalls' = <<>>
    /\ dret' = "none"
    /\ UNCHANGED <<hvars, lvars, rtvars, rvars, qvars>>

\* mutant: the container is deleted whether or not the task was
AfterTaskDelete_IgnoreError(err) ==
    [pc |-> "cl_container", ret |-> "none"]

\* if _, err := h.task.Delete(ctx); err != nil { return err }
AfterTaskDelete(err) ==
    IF err # "nil" THEN [pc |-> "done", ret |-> err]
    ELSE [pc |-> "cl_container", ret |-> "none"]

CleanupTaskDelete ==
    /\ dpc = "cl_task"
    /\ \E err \in TaskCallErrs :
        /\ dcalls' = Append(dcalls, Call("TaskDelete", "-", err, "-", dslept))
        /\ taskDeleted' = (err = "nil")
        /\ dpc' = AfterTaskDelete(err).pc
        /\ dret' = AfterTaskDelete(err).ret
    /\ UNCHANGED <<dop, timeout, signal, dslept, rtStatus, containerDeleted>>
    /\ UNCHANGED <<hvars, lvars, rvars, qvars>>

\* mutant: the error of container.Delete is swallowed
AfterContainerDelete_Swallow(err) == "nil"

\* if err := h.container.Delete(ctx, ...); err != nil { return err }; return nil
AfterContainerDelete(err) ==
    IF err # "nil" THEN err ELSE "nil"

CleanupContainerDelete ==
    /\ dpc = "cl_container"
    /\ \E err \in ContainerCallErrs :
        /\ dcalls' = Append(dcalls, Call("ContainerDelete", "-", err, "-", dslept))
        /\ containerDeleted' = (err = "nil")
        /\ dret' = AfterContainerDelete(err)
    /\ dpc' = "done"
    /\ UNCHANGED <<dop, timeout, signal, dslept, rtStatus, taskDeleted>>
    /\ UNCHANGED <<hvars, lvars, rvars, qvars>>

\* ------------------------------------------------------------ stats
\* stats(ctx, interval): return nil, nil
CallStats ==
    /\ dpc = "idle"
    /\ dpc' = "done"
    /\ dop' = "stats"
    /\ timeout' = 0
    /\ signal' = "-"
    /\ dslept' = 0
    /\ dcalls' = <<>>
    /\ dret' = "nil"
    /\ UNCHANGED <<hvars, lvars, rtvars, rvars, qvars>>

\* ------------------------------------------------------------ signal
\* the driver calls signal(ctx, sig) with any os.Signal
CallSignal ==
    /\ dpc = "idle"
    /\ \E s \in OsSignals : signal' = s
    /\ dpc' = "sg_kill"
    /\ dop' = "signal"
    /\ timeout' = 0
    /\ dslept' = 0
    /\ dcalls' = <<>>
    /\ dret' = "none"
    /\ UNCHANGED <<hvars, lvars, rtvars, rvars, qvars>>

\* sig.(syscall.Signal): the type assertion holds for syscall.Signal only
IsSyscallSignal(sig) == sig \in SyscallSignals

\* return h.task.Kill(ctx, sig.(syscall.Signal)); a failed type assertion
\* panics before Kill is called and no value is returned
SignalKill ==
    /\ dpc = "sg_kill"
    /\ IF IsSyscallSignal(signal)
       THEN /\ \E err \in TaskCallErrs :
                /\ dcalls' = Append(dcalls, Call("Kill", signal, err, "-", dslept))
                /\ dret' = err
            /\ dpc' = "done"
       ELSE /\ dcalls' = dcalls
            /\ dret' = "panic"
            /\ dpc' = "panicked"
    /\ UNCHANGED <<dop, timeout, signal, dslept>>
    /\ UNCHANGED <<hvars, lvars, rtvars, rvars, qvars>>

\* the driver has taken the returned value and is ready for its next call
DriverReturn ==
    /\ dpc = "done"
    /\ dpc' = "idle"
    /\ dop' = "none"
    /\ timeout' = 0
    /\ signal' = "-"
    /\ dslept' = 0
    /\ dcalls' = <<>>
    /\ dret' = "none"
    /\ UNCHANGED <<hvars, lvars, rtvars, rvars, qvars>>

\* ------------------------------------------------------------ run
\* func (h *taskHandle) run(ctx): the function has no result
RunReturnValue == "void"

\* go h.run(ctx): h.stateLock.Lock() announces the writer, which stops
\* new readers from entering
CallRun ==
    /\ rpc = "idle"
    /\ ~writer
    /\ writer' = TRUE
    /\ rpc' = "rn_lock"
    /\ rslept' = 0
    /\ rcalls' = <<>>
    /\ UNCHANGED <<readers, blocked>>
    /\ UNCHANGED <<hvars, rtvars, dvars, qvars>>

\* mutant: Lock() does not wait for the readers inside
RunLock_NoWait ==
    /\ rpc = "rn_lock"
    /\ rpc' = "rn_sleep"
    /\ UNCHANGED <<rslept, rcalls>>
    /\ UNCHANGED <<hvars, lvars, rtvars, dvars, qvars>>

\* Lock() returns once the readers that held the lock have left
RunLock ==
    /\ rpc = "rn_lock"
    /\ readers = {}
    /\ rpc' = "rn_sleep"
    /\ UNCHANGED <<rslept, rcalls>>
    /\ UNCHANGED <<hvars, lvars, rtvars, dvars, qvars>>

\* one second of time.Sleep(5 * time.Second)
RunSleep ==
    /\ rpc = "rn_sleep"
    /\ ~SleepOver(rslept, StartupGrace)
    /\ rslept' = rslept + 1
    /\ UNCHANGED <<rpc, rcalls>>
    /\ UNCHANGED <<hvars, lvars, rtvars, dvars, qvars>>

\* mutant: run itself moves the handle to Running after a successful Start
RunStart_SetsRunning ==
    /\ rpc = "rn_sleep"
    /\ SleepOver(rslept, StartupGrace)
    /\ \E err \in TaskCallErrs :
        /\ rcalls' = Append(rcalls, Call("Start", "-", err, "-", rslept))
        /\ rtStatus' = IF err = "nil" /\ rtStatus = Created THEN Running ELSE rtStatus
        /\ procState' = IF err = "nil" THEN TaskStateRunning ELSE procState
    /\ rpc' = "rn_unlock"
    /\ UNCHANGED <<rslept, taskDeleted, containerDeleted>>
    /\ UNCHANGED <<startedAt, completedAt, exitResult, containerName>>
    /\ UNCHANGED <<lvars, dvars, qvars>>

\* h.task.Start(ctx): the returned error is discarded
RunStart ==
    /\ rpc = "rn_sleep"
    /\ SleepOver(rslept, StartupGrace)
    /\ \E err \in TaskCallErrs :
        /\ rcalls' = Append(rcalls, Call("Start", "-", err, "-", rslept))
        /\ rtStatus' = IF err = "nil" /\ rtStatus = Created THEN Running ELSE rtStatus
    /\ rpc' = "rn_unlock"
    /\ UNCHANGED <<rslept, taskDeleted, containerDeleted>>
    /\ UNCHANGED <<hvars, lvars, dvars, qvars>>

\* mutant: Unlock() does not wake the readers queued behind the writer
RunUnlock_NoWake ==
    /\ rpc = "rn_unlock"
    /\ writer' = FALSE
    /\ rpc' = "done"
    /\ UNCHANGED <<readers, blocked, rslept, rcalls>>
    /\ UNCHANGED <<hvars, rtvars, dvars, qvars>>

\* defer h.stateLock.Unlock(): the readers queued behind the writer enter
RunUnlock ==
    /\ rpc = "rn_unlock"
    /\ writer' = FALSE
    /\ readers' = blocked
    /\ blocked' = {}
    /\ rpc' = "done"
    /\ UNCHANGED <<rslept, rcalls>>
    /\ UNCHANGED <<hvars, rtvars, dvars, qvars>>

\* run has returned (it returns no value)
RunReturn ==
    /\ rpc = "done"
    /\ rpc' = "idle"
    /\ rslept' = 0
    /\ rcalls' = <<>>
    /\ UNCHANGED <<hvars, lvars, rtvars, dvars, qvars>>

\* ------------------------------------------------------------ readers
\* h.stateLock.RLock(): enter, or queue behind a writer
RLock(q) ==
    /\ readers' = IF writer THEN readers ELSE readers \cup {q}
    /\ blocked' = IF writer THEN blocked \cup {q} ELSE blocked
    /\ UNCHANGED writer

\* reader q calls TaskStatus()
CallTaskStatus(q) ==
    /\ qpc[q] = "idle"
    /\ RLock(q)
    /\ qpc' = [qpc EXCEPT ![q] = "ts_read"]
    /\ UNCHANGED <<hvars, rtvars, dvars, rvars>>

\* mutant: the snapshot leaves ExitResult out
TaskStatusResult_NoExitResult ==
    [State |-> procState, StartedAt |-> startedAt,
     CompletedAt |-> completedAt, ExitResult |-> "nil",
     containerName |-> containerName]

\* &drivers.TaskStatus{...}: the snapshot TaskStatus builds from the fields
TaskStatusResult ==
    [State |-> procState, StartedAt |-> startedAt,
     CompletedAt |-> completedAt, ExitResult |-> exitResult,
     containerName |-> containerName]

\* return &drivers.TaskStatus{...}; deferred RUnlock. The caller gets
\* TaskStatusResult as it is when this step is taken.
TaskStatus(q) ==
    /\ qpc[q] = "ts_read"
    /\ q \in readers
    /\ readers' = readers \ {q}
    /\ qpc' = [qpc EXCEPT ![q] = "idle"]
    /\ UNCHANGED <<writer, blocked>>
    /\ UNCHANGED <<hvars, rtvars, dvars, rvars>>

\* reader q calls IsRunning()
CallIsRunning(q) ==
    /\ qpc[q] = "idle"
    /\ RLock(q)
    /\ qpc' = [qpc EXCEPT ![q] = "ir_read"]
    /\ UNCHANGED <<hvars, rtvars, dvars, rvars>>

\* h.procState == drivers.TaskStateRunning: the value IsRunning returns
IsRunningResult == procState = TaskStateRunning

\* return h.procState == drivers.TaskStateRunning; deferred RUnlock. The
\* caller gets IsRunningResult as it is when this step is taken.
IsRunning(q) ==
    /\ qpc[q] = "ir_read"
    /\ q \in readers
    /\ readers' = readers \ {q}
    /\ qpc' = [qpc EXCEPT ![q] = "idle"]
    /\ UNCHANGED <<writer, blocked>>
    /\ UNCHANGED <<hvars, rtvars, dvars, rvars>>

\* ------------------------------------------------------------ environment
\* the task's process exits inside the runtime
TaskExit ==
    /\ rtStatus = Running
    /\ rtStatus' = Stopped
    /\ UNCHANGED <<taskDeleted, containerDeleted>>
    /\ UNCHANGED <<hvars, lvars, dvars, rvars, qvars>>

\* ------------------------------------------------------------ monitor
\* The wait/monitor of the driver has observed the task's exit: under the
\* exclusive lock it records the exit result and the completion time and
\* moves the handle to Exited, once.
MonitorExit ==
    /\ rtStatus = Stopped
    /\ procState # "exited"
    /\ ~writer
    /\ readers = {}
    /\ procState' = "exited"
    /\ exitResult' = "exit"
    /\ completedAt' = 2
    /\ UNCHANGED <<startedAt, containerName>>
    /\ UNCHANGED <<lvars, rtvars, dvars, rvars, qvars>>

\* ------------------------------------------------------------ Next
Next ==
    \/ CallShutdown
    \/ ShutdownKill
    \/ ShutdownSleep
    \/ ShutdownStatus
    \/ ShutdownSigkill
    \/ CallCleanup
    \/ CleanupTaskDelete
    \/ CleanupContainerDelete
    \/ CallStats
    \/ CallSignal
    \/ SignalKill
    \/ DriverReturn
    \/ CallRun
    \/ RunLock
    \/ RunSleep
    \/ RunStart
    \/ RunUnlock
    \/ RunReturn
    \/ \E q \in Readers : CallTaskStatus(q)
    \/ \E q \in Readers : TaskStatus(q)
    \/ \E q \in Readers : CallIsRunning(q)
    \/ \E q \in Readers : IsRunning(q)
    \/ TaskExit
    \/ MonitorExit

Spec == Init /\ [][Next]_vars

\* the steps of the driver's call in progress
DriverStep ==
    \/ ShutdownKill
    \/ ShutdownSleep
    \/ ShutdownStatus
    \/ ShutdownSigkill
    \/ CleanupTaskDelete
    \/ CleanupContainerDelete
    \/ SignalKill
    \/ DriverReturn

\* The driver retrying cleanup: every runtime call returns and the driver's
\* thread keeps running (weak fairness of its steps), and a driver that is
\* ready for a call again and again does call cleanup again (strong
\* fairness of the call).
RetrySpec == Spec /\ WF_vars(DriverStep) /\ SF_vars(CallCleanup)

\* the steps of a run call in progress
RunStep ==
    \/ RunLock
    \/ RunSleep
    \/ RunStart
    \/ RunUnlock
    \/ RunReturn

\* the calls that use the lock, with the events that change what they read:
\* run calls interleaved with TaskStatus and IsRunning calls
LockNext ==
    \/ CallRun
    \/ RunLock
    \/ RunSleep
    \/ RunStart
    \/ RunUnlock
    \/ RunReturn
    \/ \E q \in Readers : CallTaskStatus(q)
    \/ \E q \in Readers : TaskStatus(q)
    \/ \E q \in Readers : CallIsRunning(q)
    \/ \E q \in Readers : IsRunning(q)
    \/ TaskExit
    \/ MonitorExit

\* Fair scheduling of the goroutines that use the lock: a run call in
\* progress keeps taking steps (its Start call returns), and a reader that
\* holds the lock finishes its read.
LockSpec ==
    /\ Init
    /\ [][LockNext]_vars
    /\ WF_vars(RunStep)
    /\ \A q \in Readers : WF_vars(TaskStatus(q)) /\ WF_vars(IsRunning(q))

\* ------------------------------------------------------------ properties
\* the Kill calls of the driver's current invocation, in order
Kills == SelectSeq(dcalls, LAMBDA c : c.op = "Kill")

\* the driver's call is a shutdown that has returned
ShutdownReturned == dop = "shutdown" /\ dpc = "done"

\* ... whose initial Kill(signal) succeeded
InitialKillOk ==
    /\ Len(dcalls) >= 1
    /\ dcalls[1].op = "Kill"
    /\ dcalls[1].arg = signal
    /\ dcalls[1].err = "nil"

\* ... whose initial Kill(signal) returned an error
InitialKillFailed ==
    /\ Len(dcalls) >= 1
    /\ dcalls[1].op = "Kill"
    /\ dcalls[1].arg = signal
    /\ dcalls[1].err # "nil"

\* C1: a shutdown whose initial Kill succeeded and whose Status query
\* reported Running has issued exactly two Kill calls, the second with
\* SIGKILL and as its last runtime call, and returns that call's result.
C1_EscalatesWhenRunning ==
    (/\ ShutdownReturned
     /\ InitialKillOk
     /\ \E i \in 1..Len(dcalls) :
            dcalls[i].op = "Status" /\ dcalls[i].err = "nil" /\ dcalls[i].val = "running")
    => /\ Len(Kills) = 2
       /\ Kills[2].arg = "SIGKILL"
       /\ dcalls[Len(dcalls)] = Kills[2]
       /\ dret = Kills[2].err

C1_Witness ==
    /\ ShutdownReturned
    /\ InitialKillOk
    /\ signal = "SIGTERM"
    /\ Len(dcalls) = 3
    /\ dcalls[2].op = "Status" /\ dcalls[2].val = "running"
    /\ dcalls[3].op = "Kill" /\ dcalls[3].arg = "SIGKILL" /\ dcalls[3].err = "e1"
    /\ dret = "e1"

\* C2: a shutdown whose initial Kill succeeded and whose Status query
\* succeeded with a status other than Running returns nil, and its only
\* Kill call is the initial Kill(signal): no call follows the Status query.
C2_NoEscalationWhenNotRunning ==
    (/\ ShutdownReturned
     /\ InitialKillOk
     /\ \E i \in 1..Len(dcalls) :
            dcalls[i].op = "Status" /\ dcalls[i].err = "nil" /\ dcalls[i].val # "running")
    => /\ dret = "nil"
       /\ Len(Kills) = 1
       /\ Len(dcalls) = 2
       /\ dcalls[2].op = "Status"

C2_Witness ==
    /\ ShutdownReturned
    /\ InitialKillOk
    /\ signal = "SIGTERM"
    /\ Len(dcalls) = 2
    /\ dcalls[2].op = "Status" /\ dcalls[2].err = "nil" /\ dcalls[2].val = "stopped"
    /\ dret = "nil"

\* C3: a shutdown whose initial Kill returned an error returns that error;
\* the failed Kill is its only runtime call and it has not slept.
C3_InitialKillErrorReturned ==
    (ShutdownReturned /\ InitialKillFailed)
    => /\ dret = dcalls[1].err
       /\ Len(dcalls) = 1
       /\ dslept = 0

C3_Witness ==
    /\ ShutdownReturned
    /\ InitialKillFailed
    /\ timeout > 0
    /\ dret = "e2"

\* C8: a shutdown whose initial Kill succeeded and whose Status query
\* returned an error returns that error and issues no further call.
C8_StatusErrorReturned ==
    (/\ ShutdownReturned
     /\ InitialKillOk
     /\ \E i \in 1..Len(dcalls) : dcalls[i].op = "Status" /\ dcalls[i].err # "nil")
    => /\ Len(dcalls) = 2
       /\ dcalls[2].op = "Status"
       /\ dret = dcalls[2].err
       /\ Len(Kills) = 1

C8_Witness ==
    /\ ShutdownReturned
    /\ InitialKillOk
    /\ Len(dcalls) = 2
    /\ dcalls[2].op = "Status" /\ dcalls[2].err = "e1" /\ dcalls[2].rt = "running"
    /\ dret = "e1"

\* the driver's call is a cleanup that has returned
CleanupReturned == dop = "cleanup" /\ dpc = "done"

\* C4: in a cleanup, container Delete is issued only after the task Delete
\* of the same call returned nil; a cleanup whose task Delete failed
\* returns that error with the failed task Delete as its only runtime call.
C4_TaskDeleteBeforeContainerDelete ==
    dop = "cleanup" =>
        /\ \A i \in 1..Len(dcalls) :
              dcalls[i].op = "ContainerDelete" =>
                  \E j \in 1..(i - 1) :
                      dcalls[j].op = "TaskDelete" /\ dcalls[j].err = "nil"
        /\ (dpc = "done" /\ dcalls[1].op = "TaskDelete" /\ dcalls[1].err # "nil")
              => (dret = dcalls[1].err /\ Len(dcalls) = 1)

C4_Witness ==
    /\ CleanupReturned
    /\ ~taskDeleted
    /\ Len(dcalls) = 1
    /\ dcalls[1].op = "TaskDelete"
    /\ dcalls[1].err = "e1"
    /\ dret = "e1"

\* C5: a cleanup whose task Delete succeeded and whose container Delete
\* failed returns the container Delete's error, and leaves the task deleted
\* and the container in place; a cleanup returns nil only if both Delete
\* calls were made and returned nil.
C5_ContainerDeleteErrorReturned ==
    CleanupReturned =>
        /\ (/\ Len(dcalls) = 2
            /\ dcalls[1].op = "TaskDelete" /\ dcalls[1].err = "nil"
            /\ dcalls[2].op = "ContainerDelete" /\ dcalls[2].err # "nil")
           => (dret = dcalls[2].err /\ taskDeleted /\ ~containerDeleted)
        /\ dret = "nil"
           => /\ Len(dcalls) = 2
              /\ dcalls[1].op = "TaskDelete" /\ dcalls[1].err = "nil"
              /\ dcalls[2].op = "ContainerDelete" /\ dcalls[2].err = "nil"
              /\ taskDeleted /\ containerDeleted

C5_Witness ==
    /\ CleanupReturned
    /\ Len(dcalls) = 2
    /\ dcalls[1].err = "nil"
    /\ dcalls[2].op = "ContainerDelete" /\ dcalls[2].err = "e2"
    /\ dret = "e2"
    /\ taskDeleted /\ ~containerDeleted

\* the Start calls of the current run invocation, in order
Starts == SelectSeq(rcalls, LAMBDA c : c.op = "Start")

\* C9: run issues Start only after it has slept the 5 seconds of the
\* startup grace period, and a run that has passed its Start call has
\* issued exactly one Start, whatever that call returned.
C9_StartAfterGraceOnce ==
    /\ \A i \in 1..Len(rcalls) : rcalls[i].op = "Start" => rcalls[i].at >= 5
    /\ rpc \in {"rn_lock", "rn_sleep"} => Len(Starts) = 0
    /\ rpc \in {"rn_unlock", "done"} => (Len(Starts) = 1 /\ Len(rcalls) = 1)

C9_Witness ==
    /\ rpc = "done"
    /\ Len(rcalls) = 1
    /\ rcalls[1].op = "Start"
    /\ rcalls[1].err = "e1"
    /\ rcalls[1].at = 5

\* a cleanup has returned after deleting the task and failing to delete
\* the container
Stranded ==
    /\ CleanupReturned
    /\ Len(dcalls) = 2
    /\ dcalls[1].op = "TaskDelete" /\ dcalls[1].err = "nil"
    /\ dcalls[2].op = "ContainerDelete" /\ dcalls[2].err # "nil"

\* C6: when a cleanup deleted the task and failed to delete the container,
\* and the driver keeps retrying cleanup, a later cleanup reaches its
\* container Delete call (unless the driver's thread has panicked).
C6_ContainerDeleteRetried ==
    [](Stranded => <>(dpc = "cl_container" \/ dpc = "panicked"))

\* C7: a shutdown whose initial Kill succeeded and whose task was running
\* at the Status query after the wait has issued a SIGKILL after that
\* query, also when the query itself failed.
C7_EscalatesWhenStillRunning ==
    (ShutdownReturned /\ InitialKillOk)
    => \A i \in 1..Len(dcalls) :
          (dcalls[i].op = "Status" /\ dcalls[i].rt = "running")
          => \E j \in (i + 1)..Len(dcalls) :
                dcalls[j].op = "Kill" /\ dcalls[j].arg = "SIGKILL"

\* C10: when the Start call of a run failed, the caller of run gets the
\* error, as the returned value or in the handle's exit result; and signal
\* returns the error of its Kill call.
C10_StartFailureReachesCaller ==
    /\ (rpc = "done" /\ Len(rcalls) = 1 /\ rcalls[1].op = "Start" /\ rcalls[1].err # "nil")
       => (RunReturnValue = rcalls[1].err \/ exitResult = rcalls[1].err)
    /\ (dop = "signal" /\ dpc = "done")
       => (Len(dcalls) = 1 /\ dret = dcalls[1].err)

\* C11: a signal call with a value that is no syscall.Signal returns an
\* error without calling the runtime; with a syscall.Signal it issues one
\* Kill with that signal and returns its result.
C11_UnrepresentableSignalIsError ==
    /\ (dop = "signal" /\ signal = "foreign" /\ dpc # "sg_kill")
       => /\ dpc = "done"
          /\ dret \notin {"nil", "none", "panic"}
          /\ Len(dcalls) = 0
    /\ (dop = "signal" /\ signal # "foreign" /\ dpc # "sg_kill")
       => /\ dpc = "done"
          /\ Len(dcalls) = 1
          /\ dcalls[1].op = "Kill" /\ dcalls[1].arg = signal
          /\ dret = dcalls[1].err

\* the run call has issued Start, which has not returned: run holds the
\* exclusive lock (shutdown, cleanup and signal hold no lock in their
\* runtime calls, so no reader can be waiting for them)
RunInStart == rpc = "rn_sleep" /\ rslept >= 5

\* C12: no TaskStatus or IsRunning call waits for a runtime call to
\* return: while the lock's holder is inside a runtime call, every reader
\* call in progress holds the lock in shared mode and can complete.
C12_ReadersNeverWaitForRuntime ==
    RunInStart => \A q \in Readers : qpc[q] # "idle" => q \in readers

\* C13: in every reachable state the snapshot TaskStatus returns, like the
\* handle itself, has a non-nil exit result and a non-zero completion time
\* when its state is Exited.
C13_ExitedHasResult ==
    /\ procState = "exited" => (exitResult # "nil" /\ completedAt # 0)
    /\ TaskStatusResult.State = "exited"
       => (TaskStatusResult.ExitResult # "nil" /\ TaskStatusResult.CompletedAt # 0)

C13_Witness ==
    /\ procState = "exited"
    /\ \E q \in Readers : qpc[q] = "ts_read" /\ q \in readers
    /\ dop = "cleanup" /\ dpc = "done"

\* C14: only the monitor's exit event changes the handle's status fields
\* (no step of run, shutdown, cleanup, signal, stats or of a reader does);
\* TaskStatus reports the state as stored and IsRunning returns true
\* exactly when the stored state is Running.
C14_OnlyMonitorChangesFields ==
    [][/\ hvars' # hvars => MonitorExit
       /\ TaskStatusResult.State = procState
       /\ IsRunningResult <=> procState = "running"]_vars

C14_Witness ==
    /\ procState = "unknown"
    /\ ~IsRunningResult
    /\ rpc = "done" /\ Len(rcalls) = 1 /\ rcalls[1].err = "nil"
    /\ dop = "shutdown" /\ dpc = "done" /\ Len(dcalls) = 3
    /\ \E q \in Readers : qpc[q] = "ir_read" /\ q \in readers

\* C15: the task and the container are deleted only when the handle's
\* state is Exited.
C15_DeletedOnlyWhenExited ==
    (taskDeleted \/ containerDeleted) => procState = "exited"

\* C16: in a shutdown the runtime calls are Kill(signal) before any wait,
\* then Status after the whole timeout was slept, then at most one
\* Kill(SIGKILL), which follows a Status query of the same call that
\* succeeded and reported Running; nothing is slept after the timeout.
C16_ShutdownOrder ==
    dop = "shutdown" =>
        /\ dslept <= timeout
        /\ Len(dcalls) <= 3
        /\ Len(dcalls) >= 1
           => (dcalls[1].op = "Kill" /\ dcalls[1].arg = signal /\ dcalls[1].at = 0)
        /\ Len(dcalls) >= 2
           => /\ dcalls[1].err = "nil"
              /\ dcalls[2].op = "Status"
              /\ dcalls[2].at = timeout
        /\ Len(dcalls) = 3
           => /\ dcalls[2].err = "nil" /\ dcalls[2].val = "running"
              /\ dcalls[3].op = "Kill" /\ dcalls[3].arg = "SIGKILL"
              /\ dcalls[3].at = timeout

C16_Witness ==
    /\ ShutdownReturned
    /\ timeout >= 1
    /\ Len(dcalls) = 3
    /\ dcalls[3].arg = "SIGKILL"
    /\ dcalls[3].at = timeout

\* run is between the return of Lock() and its deferred Unlock()
RunHoldsLock == rpc \in {"rn_sleep", "rn_unlock"}

\* C17: from the return of Lock() until Unlock(), through the startup sleep
\* and the Start call, run is the lock's writer and no reader holds the
\* lock, so no TaskStatus or IsRunning reads the fields in that window.
C17_RunExcludesReaders ==
    /\ RunHoldsLock => (writer /\ readers = {})
    /\ \A q \in Readers : q \in readers => (qpc[q] # "idle" /\ ~RunHoldsLock)
    /\ \A q \in Readers : (qpc[q] # "idle" /\ RunHoldsLock) => q \in blocked

C17_Witness ==
    /\ rpc = "rn_sleep"
    /\ rslept = 5
    /\ \A q \in Readers : q \in blocked

\* readers share the lock: all of them hold it in shared mode at once
C17_SharedWitness ==
    /\ readers = Readers
    /\ \E q \in Readers : qpc[q] = "ts_read"
    /\ \E q \in Readers : qpc[q] = "ir_read"

\* a reader call in progress that does not hold the lock
Waiting(q) == qpc[q] # "idle" /\ q \notin readers

\* C18: no step of shutdown, cleanup, signal or stats changes the lock, and
\* a reader that waits, waits for run alone: with no run call between Lock()
\* and Unlock(), every reader call in progress holds the lock.
C18_DriverTakesNoLock ==
    /\ [](\A q \in Readers : Waiting(q) => rpc \in {"rn_lock", "rn_sleep", "rn_unlock"})
    /\ [][dvars' # dvars => lvars' = lvars]_vars

C18_Witness ==
    /\ rpc = "rn_sleep"
    /\ dop = "cleanup"
    /\ dpc = "cl_container"
    /\ \E q \in Readers : Waiting(q)

\* readers complete while a shutdown is in its grace-period wait
C18_ReaderWitness ==
    /\ dop = "shutdown"
    /\ dpc = "sd_sleep"
    /\ dslept < timeout
    /\ rpc = "idle"
    /\ readers = Readers

\* C19: the first runtime call of every shutdown is Kill(signal), issued
\* before anything else, whatever the handle's state and the task's status.
C19_KillFirst ==
    dop = "shutdown" =>
        \/ dpc = "sd_kill" /\ dcalls = <<>>
        \/ /\ dpc # "sd_kill"
           /\ Len(dcalls) >= 1
           /\ dcalls[1].op = "Kill"
           /\ dcalls[1].arg = signal

C19_Witness ==
    /\ dop = "shutdown"
    /\ procState = "exited"
    /\ Len(dcalls) >= 1
    /\ dcalls[1].op = "Kill"
    /\ dcalls[1].arg = "SIGTERM"
    /\ dcalls[1].rt = "stopped"

\* C20: under fair scheduling every run call that has taken the lock
\* releases it, and every TaskStatus or IsRunning call in progress
\* completes.
C20_ReadersComplete ==
    /\ writer ~> ~writer
    /\ \A q \in Readers : (qpc[q] # "idle") ~> (qpc[q] = "idle")

C20_Witness ==
    /\ rpc = "rn_unlock"
    /\ blocked = Readers

====
